---- MODULE Spec2Model ----
(***************************************************************************)
(* A model of the chunked-upload session manager, the ingestion pipeline   *)
(* and the conversational query chain of uncoverlearning-deploy            *)
(* (backend/src).                                                          *)
(*                                                                         *)
(* Request handlers are `async def` functions that never suspend (the only *)
(* await is on process_document, which itself awaits nothing), so on the   *)
(* single event loop a handler runs to completion before the next one      *)
(* starts.  The session reaper runs on a threading.Timer thread and        *)
(* interleaves with a handler between any two of its statements; this is   *)
(* why finalize_chunked_upload and cleanup_expired_uploads are modelled in *)
(* steps, while the other handlers are single actions.                     *)
(***************************************************************************)
EXTENDS Integers, Sequences, FiniteSets, TLC

VARIABLES
    chunked_uploads,   \* document_upload.chunked_uploads: upload_id -> session dict
    fs,                \* temp directories on disk: upload_id -> (chunk index -> bytes)
    now,               \* time.time()
    next_id,           \* number of uuid4() upload ids drawn so far
    resp,              \* the response of the last upload handler that returned
    fin,               \* the finalize_chunked_upload request in progress
    reaper,            \* the periodic_cleanup timer thread
    files_table,       \* the rows of the Supabase table "files", in insertion order
    chunks_table,      \* the rows of the Supabase table "chunks", in insertion order
    bucket,            \* the GCP bucket: blob path -> bytes
    tmp_dirs,          \* the process_<request_id>_ temp directories on disk
    n_uuid,            \* number of uuid4() values drawn by the ingestion
    ing,               \* the process_document call in progress, or the last one
    memory,            \* LangChainRAGChain.memory.chat_memory.messages
    mode,              \* LangChainRAGChain.mode
    calls,             \* the calls the last query made to its collaborators
    answer,            \* what the last query returned or raised
    asking,            \* the query_document request in progress
    applied            \* the last call of a function of the pipeline, with its result

uploadVars == <<chunked_uploads, fs, now, next_id, resp, fin, reaper>>

ingestVars == <<files_table, chunks_table, bucket, tmp_dirs, n_uuid, ing>>

askVars == <<memory, mode, calls, answer, asking>>

vars == <<uploadVars, ingestVars, askVars, applied>>

----------------------------------------------------------------------------
(* Bounds of the model *)

MaxSessions == 2      \* upload ids drawn in one behaviour
MaxLive == 1          \* unexpired sessions held in chunked_uploads at a time
MaxChunks == 2        \* largest total_chunks a client announces
MaxReceived == 3      \* cap on the chunks_received counter
MaxTicks == 2         \* clock advances in one behaviour

(* Program constants *)

TTL == 3600               \* expires_at = time.time() + 3600

TickStep == TTL           \* the clock advances one TTL at a time

None == [none |-> TRUE]

EmptyFn == [x \in {} |-> 0]

PartData == {<<1>>, <<2, 1>>}

----------------------------------------------------------------------------
(* Helpers *)

Range(s) == {s[i] : i \in 1..Len(s)}

Restrict(f, S) == [x \in S |-> f[x]]

\* base64: the request carries the encoding of the bytes, or text that is
\* no base64 at all.
b64encode(bytes) == [valid |-> TRUE, bytes |-> bytes]

NotBase64 == [valid |-> FALSE, bytes |-> <<>>]

ChunkDataInputs == {b64encode(d) : d \in PartData} \cup {NotBase64}

b64decode(data) == IF data.valid THEN [ok |-> TRUE, bytes |-> data.bytes]
                   ELSE [ok |-> FALSE, bytes |-> <<>>]

DictSet_replaces_dict(keys, k) == <<k>>

\* dict item assignment chunks[k] = path: a new key goes last, an existing
\* key keeps its place (the value, the path chunk_<k>, is a function of k).
DictSet(keys, k) == IF k \in Range(keys) THEN keys ELSE Append(keys, k)

Resp(op, id, status, received, total, complete) ==
    [op |-> op, upload_id |-> id, status |-> status,
     chunks_received |-> received, total_chunks |-> total, is_complete |-> complete]

FinIdle == [pc |-> "idle", upload_id |-> 0, session |-> None,
            file_content |-> <<>>, status |-> 0]

ReaperIdle == [pc |-> "idle", now |-> 0, size |-> 0, visited |-> {}, expired_ids |-> <<>>]

----------------------------------------------------------------------------
(* cleanup_expired_uploads, as the handler initiate_chunked_upload runs it:
   on the event loop, in one piece. *)

ExpiredIds(uploads, t) == {id \in DOMAIN uploads : uploads[id].expires_at < t}

cleanup_uploads(uploads, t) == Restrict(uploads, DOMAIN uploads \ ExpiredIds(uploads, t))

cleanup_dirs(uploads, dirs, t) == Restrict(dirs, DOMAIN dirs \ ExpiredIds(uploads, t))

----------------------------------------------------------------------------
(* initiate_chunked_upload *)

initiate_chunked_upload(total_chunks, mime_type) ==
    /\ fin.pc = "idle"
    /\ next_id < MaxSessions
    /\ Cardinality(DOMAIN cleanup_uploads(chunked_uploads, now)) < MaxLive
    /\ LET upload_id == next_id + 1
           uploads == cleanup_uploads(chunked_uploads, now)
           dirs == cleanup_dirs(chunked_uploads, fs, now)
       IN  /\ next_id' = upload_id
           /\ IF mime_type # "application/pdf"
              THEN /\ chunked_uploads' = uploads
                   /\ fs' = dirs
                   /\ resp' = Resp("initiate", upload_id, 400, 0, total_chunks, FALSE)
              ELSE /\ chunked_uploads' =
                        [id \in DOMAIN uploads \cup {upload_id} |->
                            IF id = upload_id
                            THEN [total_chunks |-> total_chunks,
                                  chunks_received |-> 0,
                                  chunks |-> <<>>,
                                  expires_at |-> now + TTL,
                                  is_complete |-> FALSE]
                            ELSE uploads[id]]
                   /\ fs' = [id \in DOMAIN dirs \cup {upload_id} |->
                                IF id = upload_id THEN EmptyFn ELSE dirs[id]]
                   /\ resp' = Resp("initiate", upload_id, 200, 0, total_chunks, FALSE)
    /\ UNCHANGED <<now, fin, reaper, ingestVars, askVars, applied>>

----------------------------------------------------------------------------
(* upload_chunk *)

all_chunks_received_off_by_one(upload_session) ==
    upload_session.chunks_received = upload_session.total_chunks - 1

\* upload_session["chunks_received"] == upload_session["total_chunks"], the
\* test of upload_chunk (is_complete) and of finalize_chunked_upload
all_chunks_received(upload_session) ==
    upload_session.chunks_received = upload_session.total_chunks

already_finalized_never(upload_session) == FALSE

\* if upload_session["is_complete"]: raise HTTPException(400, "Upload already finalized")
already_finalized(upload_session) == upload_session.is_complete

invalid_chunk_index_above_total(chunk_index, upload_session) ==
    chunk_index < 0 \/ chunk_index > upload_session.total_chunks

\* if request.chunk_index < 0 or request.chunk_index >= upload_session["total_chunks"]
invalid_chunk_index(chunk_index, upload_session) ==
    chunk_index < 0 \/ chunk_index >= upload_session.total_chunks

store_chunk_extends_expiry(upload_session, chunk_index) ==
    [upload_session EXCEPT
        !.chunks = DictSet(upload_session.chunks, chunk_index),
        !.chunks_received = upload_session.chunks_received + 1,
        !.expires_at = now + TTL]

\* upload_session["chunks"][request.chunk_index] = chunk_path
\* upload_session["chunks_received"] += 1
store_chunk(upload_session, chunk_index) ==
    [upload_session EXCEPT
        !.chunks = DictSet(upload_session.chunks, chunk_index),
        !.chunks_received = upload_session.chunks_received + 1]

upload_chunk(upload_id, chunk_index, chunk_data) ==
    /\ fin.pc = "idle"
    /\ IF upload_id \notin DOMAIN chunked_uploads
       THEN /\ resp' = Resp("upload_chunk", upload_id, 404, 0, 0, FALSE)
            /\ UNCHANGED <<chunked_uploads, fs>>
       ELSE LET upload_session == chunked_uploads[upload_id]
                decoded == b64decode(chunk_data)
            IN  IF invalid_chunk_index(chunk_index, upload_session)
                THEN /\ resp' = Resp("upload_chunk", upload_id, 400, 0, 0, FALSE)
                     /\ UNCHANGED <<chunked_uploads, fs>>
                ELSE IF already_finalized(upload_session)
                THEN /\ resp' = Resp("upload_chunk", upload_id, 400, 0, 0, FALSE)
                     /\ UNCHANGED <<chunked_uploads, fs>>
                ELSE IF ~decoded.ok \/ upload_id \notin DOMAIN fs
                THEN \* b64decode or open(chunk_path, "wb") raised
                     /\ resp' = Resp("upload_chunk", upload_id, 500, 0, 0, FALSE)
                     /\ UNCHANGED <<chunked_uploads, fs>>
                ELSE /\ upload_session.chunks_received < MaxReceived
                     /\ fs' = [fs EXCEPT ![upload_id] =
                                  [i \in DOMAIN fs[upload_id] \cup {chunk_index} |->
                                      IF i = chunk_index THEN decoded.bytes
                                      ELSE fs[upload_id][i]]]
                     /\ chunked_uploads' = [chunked_uploads EXCEPT ![upload_id] =
                            store_chunk(upload_session, chunk_index)]
                     /\ resp' = Resp("upload_chunk", upload_id, 200,
                                     chunked_uploads'[upload_id].chunks_received,
                                     chunked_uploads'[upload_id].total_chunks,
                                     all_chunks_received(chunked_uploads'[upload_id]))
    /\ UNCHANGED <<now, next_id, fin, reaper, ingestVars, askVars, applied>>

----------------------------------------------------------------------------
(* finalize_chunked_upload, in the steps between which the reaper thread
   can run *)

\* for i in range(total_chunks): outfile.write(open(chunks[i]).read())
RECURSIVE combine_from_skips_missing(_, _, _, _)
combine_from_skips_missing(upload_session, dir, i, outfile) ==
    IF i >= upload_session.total_chunks
    THEN [ok |-> TRUE, bytes |-> outfile]
    ELSE IF i \notin Range(upload_session.chunks) \/ i \notin DOMAIN dir
    THEN combine_from_skips_missing(upload_session, dir, i + 1, outfile)
    ELSE combine_from_skips_missing(upload_session, dir, i + 1, outfile \o dir[i])

RECURSIVE combine_from(_, _, _, _)
combine_from(upload_session, dir, i, outfile) ==
    IF i >= upload_session.total_chunks
    THEN [ok |-> TRUE, bytes |-> outfile]
    ELSE IF i \notin Range(upload_session.chunks) \/ i \notin DOMAIN dir
    THEN [ok |-> FALSE, bytes |-> <<>>]      \* KeyError, FileNotFoundError
    ELSE combine_from(upload_session, dir, i + 1, outfile \o dir[i])

RECURSIVE combine_values(_, _, _)
combine_values(paths, dir, outfile) ==
    IF paths = <<>> THEN [ok |-> TRUE, bytes |-> outfile]
    ELSE IF Head(paths) \notin DOMAIN dir THEN [ok |-> FALSE, bytes |-> <<>>]
    ELSE combine_values(Tail(paths), dir, outfile \o dir[Head(paths)])

\* for chunk_path in upload_session["chunks"].values(): arrival order
combine_chunks_in_arrival_order(upload_session, dir) ==
    combine_values(upload_session.chunks, dir, <<>>)

combine_chunks(upload_session, dir) == combine_from(upload_session, dir, 0, <<>>)

\* the checks, and upload_session["is_complete"] = True
finalize_chunked_upload(upload_id) ==
    /\ fin.pc = "idle"
    /\ IF upload_id \notin DOMAIN chunked_uploads
       THEN /\ resp' = Resp("finalize", upload_id, 404, 0, 0, FALSE)
            /\ UNCHANGED <<chunked_uploads, fin>>
       ELSE LET upload_session == chunked_uploads[upload_id]
            IN  IF ~all_chunks_received(upload_session)
                THEN /\ resp' = Resp("finalize", upload_id, 400,
                                     upload_session.chunks_received,
                                     upload_session.total_chunks, FALSE)
                     /\ UNCHANGED <<chunked_uploads, fin>>
                ELSE /\ chunked_uploads' =
                            [chunked_uploads EXCEPT ![upload_id].is_complete = TRUE]
                     /\ fin' = [pc |-> "combine", upload_id |-> upload_id,
                                session |-> [upload_session EXCEPT !.is_complete = TRUE],
                                file_content |-> <<>>, status |-> 0]
                     /\ UNCHANGED resp
    /\ UNCHANGED <<fs, now, next_id, reaper, ingestVars, askVars, applied>>

\* the chunks are combined into complete_<upload_id>.pdf and read back
finalize_combine ==
    /\ fin.pc = "combine"
    /\ LET combined == IF fin.upload_id \in DOMAIN fs
                       THEN combine_chunks(fin.session, fs[fin.upload_id])
                       ELSE [ok |-> FALSE, bytes |-> <<>>]
       IN  fin' = IF combined.ok
                  THEN [fin EXCEPT !.pc = "process", !.file_content = combined.bytes]
                  ELSE [fin EXCEPT !.pc = "cleanup", !.status = 500]
    /\ UNCHANGED <<chunked_uploads, fs, now, next_id, resp, reaper, ingestVars, askVars, applied>>

\* result = await process_document(...): it returns or raises (500)
finalize_process(processed) ==
    /\ fin.pc = "process"
    /\ fin' = IF processed
              THEN [fin EXCEPT !.pc = "del"]
              ELSE [fin EXCEPT !.pc = "cleanup", !.status = 500]
    /\ UNCHANGED <<chunked_uploads, fs, now, next_id, resp, reaper, ingestVars, askVars, applied>>

\* del chunked_uploads[request.upload_id]
finalize_del ==
    /\ fin.pc = "del"
    /\ IF fin.upload_id \in DOMAIN chunked_uploads
       THEN /\ chunked_uploads' =
                    Restrict(chunked_uploads, DOMAIN chunked_uploads \ {fin.upload_id})
            /\ fin' = [fin EXCEPT !.pc = "cleanup", !.status = 200]
       ELSE /\ fin' = [fin EXCEPT !.pc = "cleanup", !.status = 500]    \* KeyError
            /\ UNCHANGED chunked_uploads
    /\ UNCHANGED <<fs, now, next_id, resp, reaper, ingestVars, askVars, applied>>

rmtree_skipped(dirs, upload_id) == dirs

\* if os.path.exists(temp_dir): shutil.rmtree(temp_dir)
rmtree(dirs, upload_id) == Restrict(dirs, DOMAIN dirs \ {upload_id})

finalize_cleanup_drops_session ==
    /\ fin.pc = "cleanup"
    /\ fs' = rmtree(fs, fin.upload_id)
    /\ chunked_uploads' = Restrict(chunked_uploads, DOMAIN chunked_uploads \ {fin.upload_id})
    /\ resp' = Resp("finalize", fin.upload_id, fin.status,
                    fin.session.chunks_received, fin.session.total_chunks, TRUE)
    /\ fin' = FinIdle
    /\ UNCHANGED <<now, next_id, reaper, ingestVars, askVars, applied>>

\* finally: shutil.rmtree(temp_dir) if it exists; the response leaves
finalize_cleanup ==
    /\ fin.pc = "cleanup"
    /\ fs' = rmtree(fs, fin.upload_id)
    /\ resp' = Resp("finalize", fin.upload_id, fin.status,
                    fin.session.chunks_received, fin.session.total_chunks, TRUE)
    /\ fin' = FinIdle
    /\ UNCHANGED <<chunked_uploads, now, next_id, reaper, ingestVars, askVars, applied>>

----------------------------------------------------------------------------
(* periodic_cleanup on its timer thread *)

\* the timer fires: now = time.time(); iteration over chunked_uploads.items() starts
reaper_start ==
    /\ reaper.pc = "idle"
    /\ reaper' = [pc |-> "scan", now |-> now,
                  size |-> Cardinality(DOMAIN chunked_uploads),
                  visited |-> {}, expired_ids |-> <<>>]
    /\ UNCHANGED <<chunked_uploads, fs, now, next_id, resp, fin, ingestVars, askVars, applied>>

\* one turn of the for loop: a dict whose size changed since the iteration
\* started raises RuntimeError, which ends the thread before the next Timer
\* is started
reaper_scan ==
    /\ reaper.pc = "scan"
    /\ IF Cardinality(DOMAIN chunked_uploads) # reaper.size
       THEN /\ reaper' = [reaper EXCEPT !.pc = "dead"]
            /\ UNCHANGED fs
       ELSE IF DOMAIN chunked_uploads \ reaper.visited = {}
       THEN /\ reaper' = [reaper EXCEPT !.pc = "pop"]
            /\ UNCHANGED fs
       ELSE \E upload_id \in DOMAIN chunked_uploads \ reaper.visited :
               IF chunked_uploads[upload_id].expires_at < reaper.now
               THEN /\ reaper' = [reaper EXCEPT
                                    !.visited = @ \cup {upload_id},
                                    !.expired_ids = Append(@, upload_id)]
                    /\ fs' = Restrict(fs, DOMAIN fs \ {upload_id})
               ELSE /\ reaper' = [reaper EXCEPT !.visited = @ \cup {upload_id}]
                    /\ UNCHANGED fs
    /\ UNCHANGED <<chunked_uploads, now, next_id, resp, fin, ingestVars, askVars, applied>>

\* for upload_id in expired_ids: chunked_uploads.pop(upload_id, None); then
\* threading.Timer(15 * 60, periodic_cleanup).start()
reaper_pop ==
    /\ reaper.pc = "pop"
    /\ IF reaper.expired_ids # <<>>
       THEN /\ chunked_uploads' = Restrict(chunked_uploads,
                                    DOMAIN chunked_uploads \ {Head(reaper.expired_ids)})
            /\ reaper' = [reaper EXCEPT !.expired_ids = Tail(@)]
       ELSE /\ reaper' = ReaperIdle
            /\ UNCHANGED chunked_uploads
    /\ UNCHANGED <<fs, now, next_id, resp, fin, ingestVars, askVars, applied>>

Tick ==
    /\ now < MaxTicks * TickStep
    /\ now' = now + TickStep
    /\ UNCHANGED <<chunked_uploads, fs, next_id, resp, fin, reaper, ingestVars, askVars, applied>>

----------------------------------------------------------------------------
(* The ingestion pipeline: process_document, with the stores it writes.
   Each call to a collaborator (embedding model, bucket, Supabase) is a step
   of its own: what it wrote is visible to every reader of the stores from
   then on, whatever happens to the later stages. *)

MaxIngests == 2       \* process_document calls in one behaviour
MaxDocChunks == 2     \* chunks process_pdf yields for one document

Texts == {"t1", "t2"}

Filenames == {"a.pdf", "b.pdf"}

NoId == [kind |-> "none", n |-> 0]

ClientId(n) == [kind |-> "uuid", n |-> n]

ServerId(n) == [kind |-> "db", n |-> n]

SeqsUpTo(S, n) == UNION {[1..k -> S] : k \in 0..n}

\* a PDF as process_pdf sees it: the loader fails on it, or the splitter
\* raises, or it yields the chunk texts split_docs (none for an empty PDF)
PdfInputs ==
    {[kind |-> "ok", split_docs |-> t] : t \in SeqsUpTo(Texts, MaxDocChunks)}
       \cup {[kind |-> k, split_docs |-> <<>>] : k \in {"unloadable", "error"}}

process_pdf_rejects_empty(pdf) ==
    IF pdf.kind = "ok" /\ pdf.split_docs # <<>>
    THEN [ok |-> TRUE,
          documents |-> [k \in 1..Len(pdf.split_docs) |->
                            [page_content |-> pdf.split_docs[k], metadata |-> {}]]]
    ELSE [ok |-> FALSE, documents |-> <<>>]

\* LangChainDocumentProcessor.process_pdf: a loader error is swallowed and
\* gives no documents
process_pdf(pdf) ==
    IF pdf.kind = "error" THEN [ok |-> FALSE, documents |-> <<>>]
    ELSE IF pdf.kind = "unloadable" THEN [ok |-> TRUE, documents |-> <<>>]
    ELSE [ok |-> TRUE,
          documents |-> [k \in 1..Len(pdf.split_docs) |->
                            [page_content |-> pdf.split_docs[k], metadata |-> {}]]]

embed(text) == [embedding_of |-> text]

\* LangChainDocumentProcessor.generate_embeddings; the model answers with one
\* vector per text, with fewer ("short"), or raises
generate_embeddings(documents, outcome) ==
    IF outcome = "short"
    THEN [k \in 1..(Len(documents) - 1) |-> embed(documents[k].page_content)]
    ELSE [k \in 1..Len(documents) |-> embed(documents[k].page_content)]

\* full_path = f"{destination}/{filename}"
blob_path(filename) == [destination |-> "GCP_DESTINATION_FOLDER", filename |-> filename]

signed_url(path) == [signed_url_of |-> path]

\* what the table "files" keeps as the row's id: the id sent, unless the
\* database assigns its own
stored_file_id(client_id, store) == IF store = "assign" THEN ServerId(client_id.n) ELSE client_id

insert_file_metadata_client_id_only(client_id, store) == client_id

\* LangChainVectorStore.insert_file_metadata, its return value: the id of
\* response.data[0] if it has one, else the uuid generated here
insert_file_metadata(client_id, store) ==
    LET file_id_from_db == IF store = "no_id" THEN NoId
                           ELSE stored_file_id(client_id, store)
    IN  IF file_id_from_db # NoId THEN file_id_from_db ELSE client_id

\* the entries of metadata_list
chunk_metadata(file_id, i, original_name, gcp_url) ==
    {<<"id", [file |-> file_id, chunk |-> i]>>, <<"fileId", file_id>>,
     <<"position", i>>, <<"originalName", original_name>>, <<"downloadUrl", gcp_url>>}

Keys(metadata) == {kv[1] : kv \in metadata}

Get(metadata, key) == (CHOOSE kv \in metadata : kv[1] = key)[2]

\* all(doc.metadata.get(k) for k in [...]): position 0 is falsy
has_truthy_metadata(doc) ==
    /\ {"fileId", "position", "originalName", "downloadUrl"} \subseteq Keys(doc.metadata)
    /\ Get(doc.metadata, "position") # 0

\* all(k in doc.metadata for k in ["fileId", "position", "originalName", "downloadUrl"])
has_required_metadata(doc) ==
    {"fileId", "position", "originalName", "downloadUrl"} \subseteq Keys(doc.metadata)

\* chunk_data_to_insert
chunk_row(doc, embedding_vector) ==
    [id |-> Get(doc.metadata, "id"),
     fileId |-> Get(doc.metadata, "fileId"),
     position |-> Get(doc.metadata, "position"),
     originalName |-> Get(doc.metadata, "originalName"),
     content |-> doc.page_content,
     downloadUrl |-> Get(doc.metadata, "downloadUrl"),
     embedding |-> embedding_vector]

IngIdle == [pc |-> "idle", request_id |-> 0, status |-> 0, stage |-> "none",
            file_content |-> <<>>, original_name |-> "", filename |-> "",
            documents |-> <<>>, embeddings |-> <<>>, gcp_url |-> signed_url(""),
            file_id |-> NoId, i |-> 0, inserted_chunk_ids |-> <<>>, total_chunks |-> 0]

Raise(stage) == [ing EXCEPT !.pc = "returned", !.status = 500, !.stage = stage]

\* process_document up to step 1: the temp directory and file, process_pdf
process_document(file_content, original_name, filename, pdf) ==
    /\ ing.pc \in {"idle", "returned"}
    /\ ing.request_id < MaxIngests
    /\ tmp_dirs' = tmp_dirs \cup {ing.request_id + 1}
    /\ LET started == [IngIdle EXCEPT !.request_id = ing.request_id + 1,
                                      !.file_content = file_content,
                                      !.original_name = original_name,
                                      !.filename = filename]
           processed == process_pdf(pdf)
       IN  ing' = IF processed.ok
                  THEN [started EXCEPT !.pc = "embed", !.documents = processed.documents]
                  ELSE [started EXCEPT !.pc = "returned", !.status = 500, !.stage = "pdf"]
    /\ UNCHANGED <<files_table, chunks_table, bucket, n_uuid, uploadVars, askVars, applied>>

step_generate_embeddings_swallows(outcome) ==
    /\ ing.pc = "embed"
    /\ outcome = "short" => ing.documents # <<>>
    /\ ing' = [ing EXCEPT !.pc = "gcp",
                          !.embeddings = IF outcome = "raise" THEN <<>>
                                         ELSE generate_embeddings(ing.documents, outcome)]
    /\ UNCHANGED <<files_table, chunks_table, bucket, tmp_dirs, n_uuid, uploadVars, askVars, applied>>

\* step 2: generate_embeddings
step_generate_embeddings(outcome) ==
    /\ ing.pc = "embed"
    /\ outcome = "short" => ing.documents # <<>>
    /\ ing' = IF outcome = "raise" THEN Raise("embed")
              ELSE [ing EXCEPT !.pc = "gcp",
                               !.embeddings = generate_embeddings(ing.documents, outcome)]
    /\ UNCHANGED <<files_table, chunks_table, bucket, tmp_dirs, n_uuid, uploadVars, askVars, applied>>

\* step 3: upload_to_gcp
step_upload_to_gcp(uploaded) ==
    /\ ing.pc = "gcp"
    /\ IF uploaded
       THEN /\ bucket' = [p \in DOMAIN bucket \cup {blob_path(ing.filename)} |->
                             IF p = blob_path(ing.filename) THEN ing.file_content
                             ELSE bucket[p]]
            /\ ing' = [ing EXCEPT !.pc = "meta",
                                  !.gcp_url = signed_url(blob_path(ing.filename))]
       ELSE /\ ing' = Raise("gcp")
            /\ UNCHANGED bucket
    /\ UNCHANGED <<files_table, chunks_table, tmp_dirs, n_uuid, uploadVars, askVars, applied>>

\* step 4: insert_file_metadata; the insert fails, or the row is stored and
\* comes back with the id sent ("echo"), with an id the database assigned
\* ("assign"), or without an id ("no_id")
step_insert_file_metadata(store) ==
    /\ ing.pc = "meta"
    /\ n_uuid' = n_uuid + 1
    /\ IF store = "fail"
       THEN /\ ing' = Raise("meta")
            /\ UNCHANGED files_table
       ELSE /\ files_table' = Append(files_table,
                                [id |-> stored_file_id(ClientId(n_uuid + 1), store),
                                 title |-> ing.original_name,
                                 link |-> ing.gcp_url])
            /\ ing' = [ing EXCEPT !.pc = "chunks",
                                  !.file_id = insert_file_metadata(ClientId(n_uuid + 1), store)]
    /\ UNCHANGED <<chunks_table, bucket, tmp_dirs, uploadVars, askVars, applied>>

\* step 5, first part: metadata_list is put on the documents, and
\* add_documents compares the documents with the embeddings
step_add_documents ==
    /\ ing.pc = "chunks"
    /\ ing' = IF Len(ing.documents) # Len(ing.embeddings)
              THEN Raise("chunks")
              ELSE [ing EXCEPT
                      !.pc = "insert",
                      !.i = 0,
                      !.documents =
                          [k \in 1..Len(ing.documents) |->
                              [ing.documents[k] EXCEPT
                                 !.metadata = chunk_metadata(ing.file_id, k - 1,
                                                  ing.original_name, ing.gcp_url)]]]
    /\ UNCHANGED <<files_table, chunks_table, bucket, tmp_dirs, n_uuid, uploadVars, askVars, applied>>

\* one turn of the loop of add_documents
step_insert_chunk(inserted) ==
    /\ ing.pc = "insert"
    /\ ing.i < Len(ing.documents)
    /\ LET doc == ing.documents[ing.i + 1]
       IN  IF ~has_required_metadata(doc)
           THEN /\ ing' = [ing EXCEPT !.i = ing.i + 1]       \* continue
                /\ UNCHANGED chunks_table
           ELSE IF inserted
           THEN /\ chunks_table' =
                       Append(chunks_table, chunk_row(doc, ing.embeddings[ing.i + 1]))
                /\ ing' = [ing EXCEPT
                             !.i = ing.i + 1,
                             !.inserted_chunk_ids = Append(@, Get(doc.metadata, "id"))]
           ELSE /\ ing' = Raise("chunks")
                /\ UNCHANGED chunks_table
    /\ UNCHANGED <<files_table, bucket, tmp_dirs, n_uuid, uploadVars, askVars, applied>>

\* add_documents returns, and process_document answers 200
step_return ==
    /\ ing.pc = "insert"
    /\ ing.i = Len(ing.documents)
    /\ ing' = [ing EXCEPT !.pc = "returned", !.status = 200, !.stage = "done",
                          !.total_chunks = Len(ing.documents)]
    /\ UNCHANGED <<files_table, chunks_table, bucket, tmp_dirs, n_uuid, uploadVars, askVars, applied>>

IngestInit ==
    /\ files_table = <<>>
    /\ chunks_table = <<>>
    /\ bucket = EmptyFn
    /\ tmp_dirs = {}
    /\ n_uuid = 0
    /\ ing = IngIdle

----------------------------------------------------------------------------
(* The conversational query chain: LangChainRAGChain *)

MaxTurns == 4         \* messages kept in memory in one behaviour

Questions == {"What are transformers?", "What is it?"}

StandaloneQuestion == "What is a transformer?"

Answers == {"answer 1", "answer 2"}

NotFoundAnswer == "Could not find relevant information in the specified document."

Modes == {"student", "professor"}

SearchResults == {<<>>, <<[id |-> 1, content |-> "t1"]>>}

QuerySteps == {"embed_query", "hybrid_search", "question_generator", "combine_docs"}

Call(fn, text, embedding, chat_history, output) ==
    [fn |-> fn, text |-> text, embedding |-> embedding,
     chat_history |-> chat_history, output |-> output]

Turn(role, content) == [role |-> role, content |-> content]

query_body_always_generates(question, file_title, chat_history, fail, search_results, generated, final_answer) ==
    LET embed_call == Call("embed_query", question, embed(""), <<>>, "")
        search_call == Call("hybrid_search", question, embed(question), <<>>, file_title)
        rewrite_call == Call("question_generator", question, embed(""), chat_history, generated)
        new_question == IF chat_history # <<>> THEN generated ELSE question
        rewrite_calls == IF chat_history # <<>> THEN <<rewrite_call>> ELSE <<>>
        answer_call == Call("combine_docs", new_question, embed(""), chat_history, final_answer)
        not_searched == [returned |-> FALSE, results |-> <<>>]
        searched == [returned |-> TRUE, results |-> search_results]
        raised(cs, retrieval) ==
            [calls |-> cs, status |-> "raised", answer |-> "",
             source_documents |-> <<>>, messages |-> chat_history,
             search_results |-> retrieval]
    IN  IF fail = "embed_query" THEN raised(<<embed_call>>, not_searched)
        ELSE IF fail = "hybrid_search"
        THEN raised(<<embed_call, search_call>>, not_searched)
        ELSE IF fail = "question_generator" /\ chat_history # <<>>
        THEN raised(<<embed_call, search_call>> \o rewrite_calls, searched)
        ELSE IF fail = "combine_docs"
        THEN raised(<<embed_call, search_call>> \o rewrite_calls \o <<answer_call>>,
                    searched)
        ELSE [calls |-> <<embed_call, search_call>> \o rewrite_calls \o <<answer_call>>,
              status |-> "returned", answer |-> final_answer,
              source_documents |-> search_results, search_results |-> searched,
              messages |-> chat_history \o <<Turn("user", question),
                                             Turn("assistant", final_answer)>>]

query_body_records_not_found(question, file_title, chat_history, fail, search_results, generated, final_answer) ==
    LET embed_call == Call("embed_query", question, embed(""), <<>>, "")
        search_call == Call("hybrid_search", question, embed(question), <<>>, file_title)
        rewrite_call == Call("question_generator", question, embed(""), chat_history, generated)
        new_question == IF chat_history # <<>> THEN generated ELSE question
        rewrite_calls == IF chat_history # <<>> THEN <<rewrite_call>> ELSE <<>>
        answer_call == Call("combine_docs", new_question, embed(""), chat_history, final_answer)
        not_searched == [returned |-> FALSE, results |-> <<>>]
        searched == [returned |-> TRUE, results |-> search_results]
        raised(cs, retrieval) ==
            [calls |-> cs, status |-> "raised", answer |-> "",
             source_documents |-> <<>>, messages |-> chat_history,
             search_results |-> retrieval]
    IN  IF fail = "embed_query" THEN raised(<<embed_call>>, not_searched)
        ELSE IF fail = "hybrid_search"
        THEN raised(<<embed_call, search_call>>, not_searched)
        ELSE IF search_results = <<>>
        THEN [calls |-> <<embed_call, search_call>>, status |-> "returned",
              answer |-> NotFoundAnswer, source_documents |-> <<>>,
              search_results |-> searched,
              messages |-> chat_history \o <<Turn("user", question),
                                             Turn("assistant", NotFoundAnswer)>>]
        ELSE IF fail = "question_generator" /\ chat_history # <<>>
        THEN raised(<<embed_call, search_call>> \o rewrite_calls, searched)
        ELSE IF fail = "combine_docs"
        THEN raised(<<embed_call, search_call>> \o rewrite_calls \o <<answer_call>>,
                    searched)
        ELSE [calls |-> <<embed_call, search_call>> \o rewrite_calls \o <<answer_call>>,
              status |-> "returned", answer |-> final_answer,
              source_documents |-> search_results, search_results |-> searched,
              messages |-> chat_history \o <<Turn("user", question),
                                             Turn("assistant", final_answer)>>]

\* the body of the try block of query, run on the messages chat_history:
\* the calls made, what is returned or raised, and the messages afterwards.
\* `fail` names the call that raises, `search_results`, `generated` and
\* `final_answer` are what the vector store and the LLM give back; the
\* outcome keeps what hybrid_search returned, if it did.
query_body(question, file_title, chat_history, fail, search_results, generated, final_answer) ==
    LET embed_call == Call("embed_query", question, embed(""), <<>>, "")
        search_call == Call("hybrid_search", question, embed(question), <<>>, file_title)
        rewrite_call == Call("question_generator", question, embed(""), chat_history, generated)
        new_question == IF chat_history # <<>> THEN generated ELSE question
        rewrite_calls == IF chat_history # <<>> THEN <<rewrite_call>> ELSE <<>>
        answer_call == Call("combine_docs", new_question, embed(""), chat_history, final_answer)
        not_searched == [returned |-> FALSE, results |-> <<>>]
        searched == [returned |-> TRUE, results |-> search_results]
        raised(cs, retrieval) ==
            [calls |-> cs, status |-> "raised", answer |-> "",
             source_documents |-> <<>>, messages |-> chat_history,
             search_results |-> retrieval]
    IN  IF fail = "embed_query" THEN raised(<<embed_call>>, not_searched)
        ELSE IF fail = "hybrid_search"
        THEN raised(<<embed_call, search_call>>, not_searched)
        ELSE IF search_results = <<>>
        THEN [calls |-> <<embed_call, search_call>>, status |-> "returned",
              answer |-> NotFoundAnswer, source_documents |-> <<>>,
              search_results |-> searched, messages |-> chat_history]
        ELSE IF fail = "question_generator" /\ chat_history # <<>>
        THEN raised(<<embed_call, search_call>> \o rewrite_calls, searched)
        ELSE IF fail = "combine_docs"
        THEN raised(<<embed_call, search_call>> \o rewrite_calls \o <<answer_call>>,
                    searched)
        ELSE [calls |-> <<embed_call, search_call>> \o rewrite_calls \o <<answer_call>>,
              status |-> "returned", answer |-> final_answer,
              source_documents |-> search_results, search_results |-> searched,
              messages |-> chat_history \o <<Turn("user", question),
                                             Turn("assistant", final_answer)>>]

AskIdle == [pc |-> "idle", original_mode |-> "none", chat_history |-> <<>>,
            appended |-> <<>>, status |-> "none", answer |-> "",
            source_documents |-> <<>>,
            search_results |-> [returned |-> FALSE, results |-> <<>>]]

handlers_run_in_threadpool == TRUE

\* query_document, get_chat_history and clear_chat_history are coroutines
\* without an await, like the upload handlers: the event loop runs one of
\* them from its first statement to its return before it starts another
event_loop_free == fin.pc = "idle" /\ asking.pc = "idle"

set_mode_keeps_memory(new_mode, messages) == [mode |-> new_mode, messages |-> messages]

\* LangChainRAGChain.set_mode, on the mode and the messages of the memory:
\* self.mode = mode; self.memory.clear()
set_mode_result(new_mode, messages) == [mode |-> new_mode, messages |-> <<>>]

revert_mode_on_return_only(original_mode, current_mode, messages, status) ==
    IF original_mode # "none" /\ status = "returned"
    THEN set_mode_result(original_mode, messages)
    ELSE [mode |-> current_mode, messages |-> messages]

revert_mode_keeps_memory(original_mode, current_mode, messages, status) ==
    IF original_mode # "none"
    THEN [mode |-> original_mode, messages |-> messages]
    ELSE [mode |-> current_mode, messages |-> messages]

\* finally: if original_mode is not None: self.set_mode(original_mode)
revert_mode(original_mode, current_mode, messages, status) ==
    IF original_mode # "none"
    THEN set_mode_result(original_mode, messages)
    ELSE [mode |-> current_mode, messages |-> messages]

\* LangChainRAGChain.query, from the call to the answer of the LLM: the
\* switch of the mode, the retrieval, the history read from the memory, the
\* rewrite and the generation
query(question, file_title, mode_arg, fail, search_results, generated, final_answer) ==
    /\ event_loop_free
    /\ Len(memory) < MaxTurns
    /\ LET switched == mode_arg # "none" /\ mode_arg # mode
           entered == IF switched THEN set_mode_result(mode_arg, memory)
                      ELSE [mode |-> mode, messages |-> memory]
           done == query_body(question, file_title, entered.messages, fail,
                              search_results, generated, final_answer)
       IN  /\ mode' = entered.mode
           /\ memory' = entered.messages
           /\ calls' = done.calls
           /\ asking' = [pc |-> "awaiting",
                         original_mode |-> IF switched THEN mode ELSE "none",
                         chat_history |-> entered.messages,
                         appended |-> SubSeq(done.messages, Len(entered.messages) + 1,
                                             Len(done.messages)),
                         status |-> done.status,
                         answer |-> done.answer,
                         source_documents |-> done.source_documents,
                         search_results |-> done.search_results]
    /\ UNCHANGED <<answer, uploadVars, ingestVars, applied>>

\* the rest of query: memory.save_context, the finally block, the return
query_return ==
    /\ asking.pc = "awaiting"
    /\ LET reverted == revert_mode(asking.original_mode, mode,
                                   memory \o asking.appended, asking.status)
       IN  /\ memory' = reverted.messages
           /\ mode' = reverted.mode
           /\ answer' = [status |-> asking.status, answer |-> asking.answer,
                         source_documents |-> asking.source_documents,
                         mode_used |-> mode]
    /\ asking' = AskIdle
    /\ UNCHANGED <<calls, uploadVars, ingestVars, applied>>

\* LangChainRAGChain.set_mode
set_mode(new_mode) ==
    /\ event_loop_free
    /\ mode' = set_mode_result(new_mode, memory).mode
    /\ memory' = set_mode_result(new_mode, memory).messages
    /\ UNCHANGED <<calls, answer, asking, uploadVars, ingestVars, applied>>

\* DELETE /chat-history
clear_chat_history ==
    /\ event_loop_free
    /\ memory' = <<>>
    /\ UNCHANGED <<mode, calls, answer, asking, uploadVars, ingestVars, applied>>

AskInit ==
    /\ memory = <<>>
    /\ mode = "student"
    /\ calls = <<>>
    /\ answer = [status |-> "none", answer |-> "", source_documents |-> <<>>,
                 mode_used |-> "student"]
    /\ asking = AskIdle

----------------------------------------------------------------------------
(* Text extraction and splitting: LangChainDocumentProcessor.process_pdf.
   A text is a sequence of characters where its length matters (the OCR
   fallback) and a sequence of tokens where it is split. *)

MaxPages == 2         \* pages of a PDF
MaxTokens == 3        \* tokens on a page

text_threshold == 20

CHUNK_SIZE == 1000

chunk_overlap == 200

Rep(c, n) == [i \in 1..n |-> c]

\* what PyMuPDF reads on a page
NativeTexts == {<<>>, <<" ">>, <<"n">>,
                <<" ">> \o Rep("n", text_threshold - 1) \o <<" ">>,
                Rep("n", text_threshold)}

\* pytesseract.image_to_string gives a text, or the OCR fails, or PyMuPDF
\* raises on the page
OcrOutcomes == {[kind |-> "text", text |-> t] : t \in {<<>>, <<" ", " ">>, Rep("o", 3)}}
                   \cup {[kind |-> k, text |-> <<>>] : k \in {"ocr_failed", "raised"}}

NoPage == -1          \* lc_doc.metadata.get('page') is None

RECURSIVE lstrip(_)
lstrip(text) == IF text # <<>> /\ Head(text) = " " THEN lstrip(Tail(text)) ELSE text

RECURSIVE rstrip(_)
rstrip(text) ==
    IF text # <<>> /\ text[Len(text)] = " "
    THEN rstrip(SubSeq(text, 1, Len(text) - 1)) ELSE text

\* str.strip()
strip(text) == rstrip(lstrip(text))

\* _extract_text_with_ocr: the text of the page, or what the OCR gives when
\* that text is short ("" when the OCR fails)
extract_text_with_ocr(page_text, ocr) ==
    IF Len(strip(page_text)) < text_threshold
    THEN IF ocr.kind = "text" THEN ocr.text ELSE <<>>
    ELSE page_text

page_content_to_use_any_ocr(page_content, fitz_pages_for_ocr, page_index, ocr) ==
    IF Len(strip(page_content)) < text_threshold /\ fitz_pages_for_ocr # <<>>
          /\ 0 <= page_index /\ page_index < Len(fitz_pages_for_ocr)
          /\ ocr.kind # "raised"
    THEN extract_text_with_ocr(fitz_pages_for_ocr[page_index + 1], ocr)
    ELSE page_content

\* one turn of the loop over the pages of process_pdf: page_content_to_use
page_content_to_use(page_content, fitz_pages_for_ocr, page_index, ocr) ==
    IF Len(strip(page_content)) < text_threshold /\ fitz_pages_for_ocr # <<>>
    THEN IF 0 <= page_index /\ page_index < Len(fitz_pages_for_ocr)
         THEN IF ocr.kind = "raised" THEN page_content
              ELSE LET ocr_text ==
                          extract_text_with_ocr(fitz_pages_for_ocr[page_index + 1], ocr)
                   IN  IF strip(ocr_text) # <<>> THEN ocr_text ELSE page_content
         ELSE page_content
    ELSE page_content

Min(a, b) == IF a < b THEN a ELSE b

\* langchain_text_splitters.split_text_on_tokens: windows of tokens_per_chunk
\* tokens, each starting tokens_per_chunk - chunk_overlap after the one before
RECURSIVE split_text_on_tokens_from(_, _, _, _, _)
split_text_on_tokens_from(input_ids, tokens_per_chunk, overlap, start_idx, splits) ==
    LET cur_idx == Min(start_idx + tokens_per_chunk, Len(input_ids))
    IN  IF start_idx >= Len(input_ids) THEN splits
        ELSE IF cur_idx = Len(input_ids)
        THEN Append(splits, SubSeq(input_ids, start_idx + 1, cur_idx))
        ELSE split_text_on_tokens_from(input_ids, tokens_per_chunk, overlap,
                 start_idx + tokens_per_chunk - overlap,
                 Append(splits, SubSeq(input_ids, start_idx + 1, cur_idx)))

split_text_on_tokens(input_ids, tokens_per_chunk, overlap) ==
    split_text_on_tokens_from(input_ids, tokens_per_chunk, overlap, 0, <<>>)

\* TextSplitter.split_documents: every document (page) is split by itself
RECURSIVE split_documents(_, _, _)
split_documents(documents, tokens_per_chunk, overlap) ==
    IF documents = <<>> THEN <<>>
    ELSE split_text_on_tokens(Head(documents), tokens_per_chunk, overlap)
            \o split_documents(Tail(documents), tokens_per_chunk, overlap)

\* the splitters the processor can be configured with
SplitterConfigs == {<<1, 0>>, <<2, 0>>, <<2, 1>>, <<CHUNK_SIZE, chunk_overlap>>}

PageTokens == SeqsUpTo({"a", "b"}, MaxTokens)

\* no function applied yet; the functions have no state, so one call of one
\* of them on every input covers all their behaviour
AppliedNone == [fn |-> "none", args |-> <<>>, result |-> <<>>]

\* the loop of process_pdf on one page
apply_page_content_to_use ==
    /\ applied = AppliedNone
    /\ \E page_content \in NativeTexts, fitz_opened \in BOOLEAN,
          page_index \in {NoPage, 0, 1}, ocr \in OcrOutcomes :
          LET fitz_pages_for_ocr == IF fitz_opened THEN <<page_content>> ELSE <<>>
          IN  applied' = [fn |-> "page_content_to_use",
                          args |-> [page_content |-> page_content,
                                    fitz_pages_for_ocr |-> fitz_pages_for_ocr,
                                    page_index |-> page_index, ocr |-> ocr],
                          result |-> page_content_to_use(page_content,
                                         fitz_pages_for_ocr, page_index, ocr)]
    /\ UNCHANGED <<uploadVars, ingestVars, askVars>>

\* self.text_splitter.split_documents(final_documents_for_splitting)
apply_split_documents ==
    /\ applied = AppliedNone
    /\ \E documents \in SeqsUpTo(PageTokens, MaxPages), config \in SplitterConfigs :
          applied' = [fn |-> "split_documents",
                      args |-> [documents |-> documents, chunk_size |-> config[1],
                                chunk_overlap |-> config[2]],
                      result |-> split_documents(documents, config[1], config[2])]
    /\ UNCHANGED <<uploadVars, ingestVars, askVars>>

----------------------------------------------------------------------------
(* Retrieval: LangChainVectorStore.hybrid_search calls the database
   procedure "hybrid_search", which ranks the chunks by full-text match and
   by embedding distance and fuses the two rankings. *)

MaxRank == 2          \* length of a ranked list

MATCH_COUNT == 10

RRF_K == 50

ChunkIds == {"A", "B", "C"}

Weights == {1, 2}

\* a ranked list holds a chunk once
RankedLists ==
    {l \in SeqsUpTo(ChunkIds, MaxRank) : \A i, j \in 1..Len(l) : l[i] = l[j] => i = j}

\* 1-based rank of a chunk in a ranked list, 0 when it is absent
rank_of(list, id) ==
    IF id \in Range(list) THEN CHOOSE i \in 1..Len(list) : list[i] = id ELSE 0

\* the common denominator of the contributions 1/(rrf_k + rank)
RECURSIVE rrf_scale(_, _)
rrf_scale(rrf_k, max_rank) ==
    IF max_rank = 0 THEN 1 ELSE (rrf_k + max_rank) * rrf_scale(rrf_k, max_rank - 1)

\* weight/(rrf_k + rank) in units of 1/rrf_scale, zero for an absent chunk
rrf_contribution(weight, rrf_k, rank, scale) ==
    IF rank = 0 THEN 0 ELSE weight * (scale \div (rrf_k + rank))

rrf_score(id, full_text, semantic, full_text_weight, semantic_weight, rrf_k) ==
    LET scale == rrf_scale(rrf_k, IF Len(full_text) > Len(semantic)
                                  THEN Len(full_text) ELSE Len(semantic))
    IN  rrf_contribution(full_text_weight, rrf_k, rank_of(full_text, id), scale)
          + rrf_contribution(semantic_weight, rrf_k, rank_of(semantic, id), scale)

\* the chunks of either list, those of the full-text list first
fused_candidates(full_text, semantic) ==
    full_text \o SelectSeq(semantic, LAMBDA id : id \notin Range(full_text))

\* insert a chunk behind every chunk whose score is at least its own
RECURSIVE insert_by_score(_, _, _)
insert_by_score(sorted, id, score) ==
    IF sorted = <<>> THEN <<id>>
    ELSE IF score[Head(sorted)] >= score[id]
    THEN <<Head(sorted)>> \o insert_by_score(Tail(sorted), id, score)
    ELSE <<id>> \o sorted

RECURSIVE order_by_score_desc(_, _)
order_by_score_desc(ids, score) ==
    IF ids = <<>> THEN <<>>
    ELSE insert_by_score(order_by_score_desc(SubSeq(ids, 1, Len(ids) - 1), score),
                         ids[Len(ids)], score)

\* the database procedure hybrid_search
rpc_hybrid_search(ranking, match_count, full_text_weight, semantic_weight, rrf_k) ==
    LET candidates == fused_candidates(ranking.full_text, ranking.semantic)
        score == [id \in Range(candidates) |->
                     rrf_score(id, ranking.full_text, ranking.semantic,
                               full_text_weight, semantic_weight, rrf_k)]
        ordered == order_by_score_desc(candidates, score)
    IN  [has_data |-> TRUE,
         data |-> SubSeq(ordered, 1, Min(match_count, Len(ordered)))]

hybrid_search_swaps_weights(ranking, match_count, full_text_weight, semantic_weight, rrf_k) ==
    LET response == rpc_hybrid_search(ranking, match_count, semantic_weight,
                                      full_text_weight, rrf_k)
    IN  IF ~response.has_data THEN <<>> ELSE response.data

\* LangChainVectorStore.hybrid_search; ranking stands for what query_text and
\* query_embedding match in the store
hybrid_search(ranking, match_count, full_text_weight, semantic_weight, rrf_k) ==
    LET response == rpc_hybrid_search(ranking, match_count, full_text_weight,
                                      semantic_weight, rrf_k)
    IN  IF ~response.has_data THEN <<>> ELSE response.data

\* self.vector_store.hybrid_search(...) as RAGQueryProcessor.query calls it,
\* with the weights any caller may pass
apply_hybrid_search ==
    /\ applied = AppliedNone
    /\ \E full_text \in RankedLists, semantic \in RankedLists,
          full_text_weight \in Weights, semantic_weight \in Weights :
          LET ranking == [full_text |-> full_text, semantic |-> semantic]
          IN  applied' = [fn |-> "hybrid_search",
                          args |-> [ranking |-> ranking, match_count |-> MATCH_COUNT,
                                    full_text_weight |-> full_text_weight,
                                    semantic_weight |-> semantic_weight,
                                    rrf_k |-> RRF_K],
                          result |-> hybrid_search(ranking, MATCH_COUNT, full_text_weight,
                                                   semantic_weight, RRF_K)]
    /\ UNCHANGED <<uploadVars, ingestVars, askVars>>

----------------------------------------------------------------------------
(* LangChainVectorStore.add_documents as a function of the documents, the
   embeddings and the inserts that fail *)

\* metadata with every key, and metadata without "downloadUrl"
MetadataInputs ==
    LET full == chunk_metadata(ClientId(1), 1, "Doc A", signed_url(blob_path("a.pdf")))
    IN  {full, {kv \in full : kv[1] # "downloadUrl"}}

DocumentInputs == {[page_content |-> t, metadata |-> m] : t \in Texts, m \in MetadataInputs}

\* the loop over zip(documents, document_embeddings): `failing` holds the
\* indexes i whose insert(...).execute() raises
RECURSIVE add_documents_from(_, _, _, _, _, _)
add_documents_from(documents, document_embeddings, failing, i, rows, inserted_chunk_ids) ==
    IF i >= Len(documents)
    THEN [status |-> "returned", rows |-> rows, inserted_chunk_ids |-> inserted_chunk_ids]
    ELSE LET doc == documents[i + 1]
         IN  IF ~has_required_metadata(doc)
             THEN add_documents_from(documents, document_embeddings, failing, i + 1,
                                     rows, inserted_chunk_ids)           \* continue
             ELSE IF i \in failing
             THEN [status |-> "raised", rows |-> rows, inserted_chunk_ids |-> <<>>]
             ELSE add_documents_from(documents, document_embeddings, failing, i + 1,
                      Append(rows, chunk_row(doc, document_embeddings[i + 1])),
                      Append(inserted_chunk_ids, Get(doc.metadata, "id")))

\* add_documents(documents, embeddings_list=...): its outcome, the rows it
\* inserted and the ids it returns
add_documents(documents, embeddings_list, failing) ==
    IF Len(documents) # Len(embeddings_list)
    THEN [status |-> "raised", rows |-> <<>>, inserted_chunk_ids |-> <<>>]
    ELSE add_documents_from(documents, embeddings_list, failing, 0, <<>>, <<>>)

\* vector_store.add_documents(documents, embeddings_list=embeddings)
apply_add_documents ==
    /\ applied = AppliedNone
    /\ \E documents \in SeqsUpTo(DocumentInputs, MaxDocChunks), n \in 0..MaxDocChunks,
          failing \in SUBSET (0..(MaxDocChunks - 1)) :
          LET embeddings_list == [k \in 1..n |-> embed("t1")]
          IN  applied' = [fn |-> "add_documents",
                          args |-> [documents |-> documents,
                                    embeddings_list |-> embeddings_list,
                                    failing |-> failing],
                          result |-> add_documents(documents, embeddings_list, failing)]
    /\ UNCHANGED <<uploadVars, ingestVars, askVars>>

----------------------------------------------------------------------------

UploadInit ==
    /\ chunked_uploads = EmptyFn
    /\ fs = EmptyFn
    /\ now = 0
    /\ next_id = 0
    /\ resp = Resp("none", 0, 0, 0, 0, FALSE)
    /\ fin = FinIdle
    /\ reaper = ReaperIdle

Init == UploadInit /\ IngestInit /\ AskInit /\ applied = AppliedNone

Next ==
    \/ \E total_chunks \in 0..MaxChunks, mime_type \in {"application/pdf", "text/plain"} :
          initiate_chunked_upload(total_chunks, mime_type)
    \/ \E upload_id \in 1..MaxSessions, chunk_index \in -1..MaxChunks,
          chunk_data \in ChunkDataInputs :
          upload_chunk(upload_id, chunk_index, chunk_data)
    \/ \E upload_id \in 1..MaxSessions : finalize_chunked_upload(upload_id)
    \/ finalize_combine
    \/ \E processed \in BOOLEAN : finalize_process(processed)
    \/ finalize_del
    \/ finalize_cleanup
    \/ reaper_start
    \/ reaper_scan
    \/ reaper_pop
    \/ Tick

Spec == Init /\ [][Next]_vars

NextIngest ==
    \/ \E file_content \in PartData, original_name \in {"Doc A", "Doc B"},
          filename \in Filenames, pdf \in PdfInputs :
          process_document(file_content, original_name, filename, pdf)
    \/ \E outcome \in {"ok", "short", "raise"} : step_generate_embeddings(outcome)
    \/ \E uploaded \in BOOLEAN : step_upload_to_gcp(uploaded)
    \/ \E store \in {"echo", "assign", "no_id", "fail"} : step_insert_file_metadata(store)
    \/ step_add_documents
    \/ \E inserted \in BOOLEAN : step_insert_chunk(inserted)
    \/ step_return

SpecIngest == Init /\ [][NextIngest]_vars

NextAsk ==
    \/ \E question \in Questions, file_title \in {"", "Doc A"},
          mode_arg \in Modes \cup {"none"}, fail \in QuerySteps \cup {"none"},
          search_results \in SearchResults,
          generated \in Questions \cup {StandaloneQuestion},
          final_answer \in Answers :
          query(question, file_title, mode_arg, fail, search_results, generated, final_answer)
    \/ query_return
    \/ \E new_mode \in Modes : set_mode(new_mode)
    \/ clear_chat_history

SpecAsk == Init /\ [][NextAsk]_vars

NextFunctions ==
    \/ apply_page_content_to_use
    \/ apply_split_documents
    \/ apply_hybrid_search
    \/ apply_add_documents

SpecFunctions == Init /\ [][NextFunctions]_vars

\* the timer thread runs when its timer is due, a handler that has started
\* runs to its end, and time passes
FairSpec ==
    /\ Spec
    /\ WF_vars(reaper_start) /\ WF_vars(reaper_scan) /\ WF_vars(reaper_pop)
    /\ WF_vars(finalize_combine) /\ WF_vars(\E processed \in BOOLEAN : finalize_process(processed))
    /\ WF_vars(finalize_del) /\ WF_vars(finalize_cleanup)
    /\ WF_vars(Tick)

----------------------------------------------------------------------------
(* Claims about the upload sessions *)

Expired(id) == id \in DOMAIN chunked_uploads /\ chunked_uploads[id].expires_at < now

IndexesOf(upload_session) == Range(upload_session.chunks)

\* every successful upload_chunk so far brought an index of its own
OnePartPerIndex(upload_session) ==
    upload_session.chunks_received = Len(upload_session.chunks)

RECURSIVE InIndexOrder(_, _)
InIndexOrder(dir, n) == IF n = 0 THEN <<>> ELSE InIndexOrder(dir, n - 1) \o dir[n - 1]

\* C1: the received count stored in a session, and the one upload_chunk
\* reports, is the number of distinct chunk indexes received.
C1_ReceivedCountsDistinctIndexes ==
    /\ \A id \in DOMAIN chunked_uploads :
          chunked_uploads[id].chunks_received
             = Cardinality(IndexesOf(chunked_uploads[id]))
    /\ (resp.op = "upload_chunk" /\ resp.status = 200
           /\ resp.upload_id \in DOMAIN chunked_uploads)
          => resp.chunks_received
                = Cardinality(IndexesOf(chunked_uploads[resp.upload_id]))

\* C2: in a session with total_chunks >= 1 that got one part per index, in
\* any order, upload_chunk reports is_complete exactly when the part it
\* stored was the last one missing, and finalize then passes its checks.
C2_CompleteOnLastPartAnyOrder ==
    /\ [](\A id \in DOMAIN chunked_uploads :
            (resp.op = "upload_chunk" /\ resp.status = 200 /\ resp.upload_id = id
                /\ chunked_uploads[id].total_chunks >= 1
                /\ OnePartPerIndex(chunked_uploads[id]))
            => (resp.is_complete
                   <=> IndexesOf(chunked_uploads[id])
                          = 0..(chunked_uploads[id].total_chunks - 1)))
    /\ [][\A id \in DOMAIN chunked_uploads :
            (chunked_uploads[id].total_chunks >= 1
                /\ OnePartPerIndex(chunked_uploads[id])
                /\ IndexesOf(chunked_uploads[id])
                      = 0..(chunked_uploads[id].total_chunks - 1)
                /\ finalize_chunked_upload(id))
            => fin'.pc = "combine"]_vars

C2_Witness ==
    /\ fin.pc = "combine"
    /\ resp.op = "upload_chunk" /\ resp.is_complete
    /\ fin.session.total_chunks = MaxChunks
    /\ OnePartPerIndex(fin.session)
    /\ fin.session.chunks[1] # 0

\* C3: the bytes finalize hands to process_document are the stored parts
\* concatenated in index order 0..N-1, whatever order they arrived in:
\* every part 0..N-1 is there and the bytes are their concatenation.
C3_AssembledInIndexOrder ==
    [][(fin.pc = "combine" /\ fin'.pc = "process")
         => /\ fin.upload_id \in DOMAIN fs
            /\ 0..(fin.session.total_chunks - 1) \subseteq DOMAIN fs[fin.upload_id]
            /\ fin'.file_content
                  = InIndexOrder(fs[fin.upload_id], fin.session.total_chunks)]_vars

C3_Witness ==
    /\ fin.pc = "process"
    /\ fin.session.total_chunks = MaxChunks
    /\ fin.session.chunks[1] # 0
    /\ fin.file_content = <<1, 2, 1>>

\* C4: upload_chunk and finalize on a session whose expires_at is earlier
\* than the current time answer 404 and change nothing, purged or not.
C4_ExpiredSessionUnusable ==
    [][\A id \in DOMAIN chunked_uploads :
          (Expired(id)
             /\ \/ \E chunk_index \in 0..MaxChunks, chunk_data \in ChunkDataInputs :
                      upload_chunk(id, chunk_index, chunk_data)
                \/ finalize_chunked_upload(id))
          => (resp'.status = 404 /\ UNCHANGED <<chunked_uploads, fs, fin>>)]_vars

\* C5: every session whose expires_at has passed is eventually gone from
\* chunked_uploads, and its temp directory from the disk.
C5_ExpiredEventuallyPurged ==
    \A id \in 1..MaxSessions :
        Expired(id) ~> (id \notin DOMAIN chunked_uploads /\ id \notin DOMAIN fs)

\* C6: while a finalize is between its existence check and its return, the
\* reaper removes neither its session nor its temp directory.
C6_ReaperSparesFinalize ==
    [][(fin.pc \in {"combine", "process", "del"} /\ (reaper_scan \/ reaper_pop))
         => /\ fin.upload_id \in DOMAIN chunked_uploads
                  => fin.upload_id \in DOMAIN chunked_uploads'
            /\ fin.upload_id \in DOMAIN fs => fin.upload_id \in DOMAIN fs']_vars

\* C15: the is_complete flag of a session (of one or more chunks) is true
\* exactly when a part has been received for as many distinct indexes as
\* total_chunks.
C15_CompleteIffAllReceived ==
    \A id \in DOMAIN chunked_uploads :
        chunked_uploads[id].total_chunks >= 1
           => (chunked_uploads[id].is_complete
                  <=> Cardinality(IndexesOf(chunked_uploads[id]))
                         = chunked_uploads[id].total_chunks)

\* finalize has marked the session complete: it is in chunked_uploads with
\* the flag set, or the last response is that of its finalize
CompletedByFinalize(id) ==
    \/ id \in DOMAIN chunked_uploads /\ chunked_uploads[id].is_complete
    \/ resp.op = "finalize" /\ resp.is_complete /\ resp.upload_id = id

\* C16, as stated: upload_chunk on a session finalize has completed answers
\* 400 "already finalized" and changes neither the parts nor the count.
C16_CompletedSessionAlreadyFinalized ==
    [][\A id \in 1..MaxSessions, chunk_index \in 0..MaxChunks,
          chunk_data \in ChunkDataInputs :
          (CompletedByFinalize(id) /\ upload_chunk(id, chunk_index, chunk_data))
          => (resp'.status = 400 /\ UNCHANGED <<chunked_uploads, fs>>)]_vars

\* C16, amended: upload_chunk on a session finalize has completed is
\* rejected and changes neither the parts nor the count: with 400 while the
\* session is in chunked_uploads, with 404 once it has been removed.
C16_CompletedSessionRejectsParts ==
    [][\A id \in 1..MaxSessions, chunk_index \in 0..MaxChunks,
          chunk_data \in ChunkDataInputs :
          (CompletedByFinalize(id) /\ upload_chunk(id, chunk_index, chunk_data))
          => /\ resp'.status = IF id \in DOMAIN chunked_uploads THEN 400 ELSE 404
             /\ UNCHANGED <<chunked_uploads, fs>>]_vars

C16_Witness ==
    /\ resp.op = "upload_chunk" /\ resp.status = 400
    /\ resp.upload_id \in DOMAIN chunked_uploads
    /\ chunked_uploads[resp.upload_id].is_complete
    /\ chunked_uploads[resp.upload_id].total_chunks = MaxChunks

\* C17: finalize on a session that lacks a part for some index 0..N-1
\* answers 400 and changes neither the session nor its directory, and no
\* assembly starts.
C17_IncompleteFinalizeChangesNothing ==
    [][\A id \in DOMAIN chunked_uploads :
          (IndexesOf(chunked_uploads[id]) # 0..(chunked_uploads[id].total_chunks - 1)
             /\ finalize_chunked_upload(id))
          => (resp'.status = 400 /\ UNCHANGED <<chunked_uploads, fs, fin>>)]_vars

C19_FinalizeRemovesSession ==
    (resp.op = "finalize" /\ resp.is_complete /\ resp.total_chunks >= 1)
       => resp.upload_id \notin DOMAIN chunked_uploads

\* C20: no session has total_chunks < 1, and no finalize succeeds on a
\* session that received no part.
C20_NoZeroChunkSession ==
    /\ \A id \in DOMAIN chunked_uploads : chunked_uploads[id].total_chunks >= 1
    /\ (resp.op = "finalize" /\ resp.status = 200) => resp.chunks_received >= 1

\* C21: upload_chunk requests on one session never lose each other's
\* update, in whatever order the event loop runs them: each one answered 200
\* adds its index to the indexes received, stores its bytes, keeps the
\* parts stored before and counts once; so after requests for distinct
\* indexes a part is stored for each and the count is their number.
C21_NoLostPart ==
    /\ [][\A id \in DOMAIN chunked_uploads, chunk_index \in 0..MaxChunks,
             chunk_data \in ChunkDataInputs :
             (upload_chunk(id, chunk_index, chunk_data) /\ resp'.status = 200)
             => /\ IndexesOf(chunked_uploads'[id])
                      = IndexesOf(chunked_uploads[id]) \cup {chunk_index}
                /\ chunked_uploads'[id].chunks_received
                      = chunked_uploads[id].chunks_received + 1
                /\ fs'[id][chunk_index] = b64decode(chunk_data).bytes
                /\ \A i \in DOMAIN fs[id] \ {chunk_index} :
                      i \in DOMAIN fs'[id] /\ fs'[id][i] = fs[id][i]]_vars
    /\ [](\A id \in DOMAIN chunked_uploads \cap DOMAIN fs :
             (OnePartPerIndex(chunked_uploads[id]) /\ ~chunked_uploads[id].is_complete)
             => /\ DOMAIN fs[id] = IndexesOf(chunked_uploads[id])
                /\ chunked_uploads[id].chunks_received
                      = Cardinality(DOMAIN fs[id]))

C21_Witness ==
    \E id \in DOMAIN chunked_uploads \cap DOMAIN fs :
        /\ chunked_uploads[id].chunks = <<1, 0>>
        /\ chunked_uploads[id].chunks_received = 2
        /\ fs[id][0] = <<1>> /\ fs[id][1] = <<2, 1>>
        /\ resp.op = "upload_chunk" /\ resp.status = 200

----------------------------------------------------------------------------
(* Claims about the ingestion pipeline *)

ChunkRowsOf(file_id) == SelectSeq(chunks_table, LAMBDA row : row.fileId = file_id)

\* C7: the metadata row of a document is in the table "files" before any of
\* its chunk rows is in "chunks", and every chunk row's fileId is the id of
\* that row: the id the store returned, or else the id generated here.
C7_MetadataBeforeChunks ==
    /\ [](\A k \in 1..Len(chunks_table) :
             \E j \in 1..Len(files_table) : files_table[j].id = chunks_table[k].fileId)
    /\ [][Len(chunks_table') > Len(chunks_table)
            => /\ files_table # <<>>
               /\ files_table' = files_table
               /\ chunks_table'[Len(chunks_table')].fileId
                     = files_table[Len(files_table)].id]_vars

C7_Witness ==
    /\ chunks_table # <<>>
    /\ chunks_table[Len(chunks_table)].fileId.kind = "db"
    /\ \E k \in 1..Len(chunks_table) : chunks_table[k].fileId.kind = "uuid"

\* C8: when process_document answers 500, neither a metadata row nor a
\* chunk row of that document is in the stores.
C8_FailedIngestLeavesNothing ==
    (ing.pc = "returned" /\ ing.status = 500)
       => /\ \A j \in 1..Len(files_table) : files_table[j].id # ing.file_id
          /\ \A k \in 1..Len(chunks_table) : chunks_table[k].fileId # ing.file_id

\* C9: when process_document answers 200, the chunk rows of the document
\* are the chunks process_pdf produced: as many as produced and as reported,
\* the i-th of them stored once, at position i.
C9_PersistedChunksAreProduced ==
    (ing.pc = "returned" /\ ing.status = 200)
       => LET rows == ChunkRowsOf(ing.file_id)
          IN  /\ Len(rows) = Len(ing.documents)
              /\ ing.total_chunks = Len(ing.documents)
              /\ \A i \in 1..Len(rows) :
                    /\ rows[i].position = i - 1
                    /\ rows[i].content = ing.documents[i].page_content
                    /\ rows[i].embedding = embed(ing.documents[i].page_content)

C9_Witness ==
    /\ ing.pc = "returned" /\ ing.status = 200
    /\ ing.request_id = MaxIngests
    /\ Len(ing.documents) = MaxDocChunks
    /\ Len(chunks_table) > MaxDocChunks

Failed == ing.pc = "returned" /\ ing.status = 500

FailedNext == ing'.pc = "returned" /\ ing'.status = 500

\* C22: a stage that fails ends the ingest with 500 before any later stage
\* runs, and 200 is answered only after extraction, embedding, blob upload,
\* metadata insert and chunk inserts have all been done.
C22_StageFailureAbortsIngest ==
    [][/\ \A file_content \in PartData, original_name \in {"Doc A", "Doc B"},
             filename \in Filenames, pdf \in PdfInputs :
             (pdf.kind # "ok" /\ process_document(file_content, original_name, filename, pdf))
             => FailedNext
       /\ step_generate_embeddings("raise") => FailedNext
       /\ step_upload_to_gcp(FALSE) => FailedNext
       /\ step_insert_file_metadata("fail") => FailedNext
       /\ (ing.pc = "insert" /\ step_insert_chunk(FALSE)) => FailedNext
       /\ (ing'.pc = "returned" /\ ing'.status = 200)
            => /\ ing.pc = "insert"
               /\ Len(ing.inserted_chunk_ids) = Len(ing.documents)
               /\ blob_path(ing.filename) \in DOMAIN bucket
               /\ \E j \in 1..Len(files_table) : files_table[j].id = ing.file_id]_vars

\* C23: when generate_embeddings raises, the ingest answers 500 and has
\* written nothing: no step of an ingest up to and including the embedding
\* writes to the bucket, to "files" or to "chunks".
C23_EmbeddingFailureWritesNothing ==
    [][/\ step_generate_embeddings("raise")
            => (FailedNext /\ ing'.stage = "embed")
       /\ ing.pc \in {"idle", "returned", "embed"}
            => UNCHANGED <<bucket, files_table, chunks_table>>]_vars

C23_Witness ==
    /\ Failed /\ ing.stage = "embed"
    /\ ing.request_id = MaxIngests
    /\ Len(ing.documents) = MaxDocChunks
    /\ Len(files_table) = 1 /\ Len(chunks_table) = MaxDocChunks

\* C24: when process_document returns, with 200 or with 500, the temp
\* directory it made for the request is not on the disk.
C24_IngestRemovesTempDir ==
    ing.pc = "returned" => ing.request_id \notin tmp_dirs

\* C25: a blob in the bucket is never overwritten: an ingest stores its
\* bytes at a path no earlier ingest used, also for the same file name.
C25_BlobNeverOverwritten ==
    [][\A path \in DOMAIN bucket :
          path \in DOMAIN bucket' /\ bucket'[path] = bucket[path]]_vars

EmptyPdf == [kind |-> "ok", split_docs |-> <<>>]

\* C26: a PDF without pages or without text goes through the ingest
\* without an error of its own: no chunk, no chunk row, and the answer 200
\* with total_chunks 0.
C26_EmptyDocumentIngests ==
    /\ [][/\ \A file_content \in PartData, original_name \in {"Doc A", "Doc B"},
                filename \in Filenames :
                process_document(file_content, original_name, filename, EmptyPdf)
                => (ing'.pc = "embed" /\ ing'.documents = <<>>)
          /\ (ing.documents = <<>> /\ ing.embeddings = <<>> /\ step_add_documents)
                => ing'.pc = "insert"
          /\ (ing.documents = <<>> /\ ing.pc = "insert")
                => (ing'.pc = "returned" /\ ing'.status = 200 /\ ing'.total_chunks = 0)
          /\ (ing.documents = <<>> /\ ing'.documents = <<>>)
                => chunks_table' = chunks_table]_vars
    /\ []((ing.pc = "returned" /\ ing.status = 200 /\ ing.documents = <<>>)
             => (ing.total_chunks = 0 /\ ChunkRowsOf(ing.file_id) = <<>>))

C26_Witness ==
    /\ ing.pc = "returned" /\ ing.status = 200
    /\ ing.documents = <<>> /\ ing.total_chunks = 0
    /\ ing.request_id = MaxIngests
    /\ chunks_table # <<>>

\* C27: a PDF of which the loader can read no page fails the ingest in
\* step 1, with 500, and nothing is embedded, uploaded or inserted for it.
C27_UnreadablePdfFailsInStageOne ==
    [][\A file_content \in PartData, original_name \in {"Doc A", "Doc B"},
          filename \in Filenames :
          process_document(file_content, original_name, filename,
                           [kind |-> "unloadable", split_docs |-> <<>>])
          => /\ FailedNext /\ ing'.stage = "pdf"
             /\ UNCHANGED <<bucket, files_table, chunks_table>>]_vars

----------------------------------------------------------------------------
(* Claims about the query chain *)

\* C10: a query that finds prior turns in the memory retrieves with the
\* standalone question the LLM made of the question: the question is
\* rewritten before hybrid_search is called, and hybrid_search gets the
\* rewritten text and its embedding.
C10_RetrievalUsesRewrittenQuestion ==
    [][\A question \in Questions, file_title \in {"", "Doc A"},
          fail \in QuerySteps \cup {"none"}, search_results \in SearchResults,
          generated \in Questions \cup {StandaloneQuestion}, final_answer \in Answers :
          (memory # <<>>
             /\ query(question, file_title, "none", fail, search_results,
                      generated, final_answer))
          => \A k \in 1..Len(calls') :
                calls'[k].fn = "hybrid_search"
                   => \E j \in 1..(k - 1) :
                         /\ calls'[j].fn = "question_generator"
                         /\ calls'[k].text = calls'[j].output
                         /\ calls'[k].embedding = embed(calls'[j].output)]_vars

Generated == asking.status = "returned" /\ asking.answer \in Answers

\* C11: a query keeps the turns the memory held when it was called, and
\* when it returns a generated answer the memory is those turns followed by
\* the user turn with the question as asked and the assistant turn with the
\* answer returned.
C11_HistoryEndsWithOriginalPair ==
    [][/\ (asking.pc = "idle" /\ asking'.pc = "awaiting") => memory' = memory
       /\ (query_return /\ Generated)
            => /\ Len(asking.appended) = 2
               /\ memory' = memory \o asking.appended
               /\ memory'[Len(memory')] = Turn("assistant", answer'.answer)
               /\ memory'[Len(memory') - 1].role = "user"]_vars

\* C12: a query called with a mode other than the current one leaves, when
\* it returns or raises at any of its calls, the mode that was current
\* before the call.
C12_ModeRevertedAfterQuery ==
    [][/\ (asking.pc = "idle" /\ asking'.pc = "awaiting" /\ mode' # mode)
            => asking'.original_mode = mode
       /\ (query_return /\ asking.original_mode # "none")
            => mode' = asking.original_mode]_vars

C12_Witness ==
    /\ asking.pc = "idle"
    /\ answer.status = "raised"
    /\ answer.mode_used = "professor"
    /\ mode = "student"

\* C13: right after set_mode the memory holds no message, whatever it held
\* before: after the call of a client, after the switch a query makes for
\* itself, and after its switch back.
C13_SetModeClearsHistory ==
    [][/\ (\E new_mode \in Modes : set_mode(new_mode)) => memory' = <<>>
       /\ (asking.pc = "idle" /\ asking'.pc = "awaiting"
              /\ asking'.original_mode # "none")
            => (memory' = <<>> /\ asking'.chat_history = <<>>)
       /\ (query_return /\ asking.original_mode # "none") => memory' = <<>>]_vars

C13_Witness ==
    /\ asking.pc = "idle"
    /\ answer.status = "returned" /\ answer.answer \in Answers
    /\ answer.mode_used = "student"
    /\ mode = "professor"
    /\ memory = <<>>

\* C14: one query at most is in progress: while it is, no other handler
\* reads or writes the memory, so the turns its answer was generated from
\* are the turns its pair is appended to.
C14_OneAskInFlight ==
    [][/\ asking.pc = "awaiting" => query_return
       /\ query_return
            => /\ memory = asking.chat_history
               /\ asking.original_mode = "none"
                    => memory' = asking.chat_history \o asking.appended]_vars

C14_Witness ==
    /\ asking.pc = "awaiting"
    /\ asking.chat_history # <<>>
    /\ Len(asking.appended) = 2

----------------------------------------------------------------------------
(* Claims about text extraction, splitting and retrieval *)

\* C28: the text kept for a page is the OCR output only if the stripped
\* native text is shorter than the threshold and the OCR returned a text
\* that is not empty; in every other case it is the native text, so a native
\* text that is not empty is never replaced by an empty one.
C28_OcrOnlyWhenShortAndNonEmpty ==
    applied.fn = "page_content_to_use" =>
        LET native == applied.args.page_content
            ocr    == applied.args.ocr
        IN  /\ applied.result # native =>
                   /\ Len(strip(native)) < text_threshold
                   /\ ocr.kind = "text" /\ ocr.text # <<>>
                   /\ applied.result = ocr.text
            /\ native # <<>> => applied.result # <<>>

\* a short native text replaced by the text the OCR read
C28_Witness ==
    /\ applied.fn = "page_content_to_use"
    /\ applied.args.page_content = <<"n">>
    /\ applied.result = Rep("o", 3)

\* the windows of size tokens of ids, each starting size - overlap tokens
\* after the one before, up to the window that reaches the end of ids
TokenWindows(ids, size, overlap) ==
    LET step == size - overlap
        n == IF ids = <<>> THEN 0
             ELSE CHOOSE k \in 1..Len(ids) :
                     /\ (k - 1) * step + size >= Len(ids)
                     /\ \A m \in 1..(k - 1) : (m - 1) * step + size < Len(ids)
    IN  [j \in 1..n |-> SubSeq(ids, (j - 1) * step + 1,
                               Min((j - 1) * step + size, Len(ids)))]

RECURSIVE Concat(_)
Concat(seqs) == IF seqs = <<>> THEN <<>> ELSE Head(seqs) \o Concat(Tail(seqs))

\* C29: the chunk sequence is the token-window split (chunk size, overlap)
\* of the concatenation of the page texts in page order; a page boundary
\* does not start a new chunk.
C29_SplitOverConcatenatedPages ==
    applied.fn = "split_documents" =>
        applied.result = TokenWindows(Concat(applied.args.documents),
                                      applied.args.chunk_size,
                                      applied.args.chunk_overlap)

\* a/b: weight/(rrf_k + rank) of a chunk in a list, 0/1 when it is absent
Contribution(list, id, weight, rrf_k) ==
    IF id \in Range(list)
    THEN [num |-> weight,
          den |-> rrf_k + (CHOOSE r \in 1..Len(list) : list[r] = id)]
    ELSE [num |-> 0, den |-> 1]

\* the sum of the two contributions of a chunk, as a fraction
FusedScore(id) ==
    LET a == applied.args
        f == Contribution(a.ranking.full_text, id, a.full_text_weight, a.rrf_k)
        e == Contribution(a.ranking.semantic, id, a.semantic_weight, a.rrf_k)
    IN  [num |-> f.num * e.den + e.num * f.den, den |-> f.den * e.den]

ScoreAtLeast(x, y) == x.num * y.den >= y.num * x.den

ExampleRanking == [full_text |-> <<"A", "B">>, semantic |-> <<"B", "C">>]

----------------------------------------------------------------------------
(* Claims about a query that finds nothing and about a query in another mode *)

\* hybrid_search returned to the query in progress, and returned nothing
NoSources ==
    /\ asking.pc = "awaiting"
    /\ asking.search_results.returned
    /\ asking.search_results.results = <<>>

\* C31: when hybrid_search returns no result, query returns the fixed
\* not-found answer with an empty list of sources, and combine_docs (the
\* generation) is not called for that query.
C31_NoSourcesShortCircuit ==
    [][/\ NoSources'
             => /\ asking'.status = "returned"
                /\ asking'.answer = NotFoundAnswer
                /\ asking'.source_documents = <<>>
                /\ \A k \in 1..Len(calls') : calls'[k].fn # "combine_docs"
       /\ (query_return /\ NoSources)
             => /\ answer'.status = "returned"
                /\ answer'.answer = NotFoundAnswer
                /\ answer'.source_documents = <<>>
                /\ \A k \in 1..Len(calls') : calls'[k].fn # "combine_docs"]_vars

C31_Witness ==
    /\ asking.pc = "idle"
    /\ answer.status = "returned"
    /\ answer.answer = NotFoundAnswer
    /\ answer.source_documents = <<>>
    /\ Len(calls) = 2 /\ calls[2].fn = "hybrid_search"

\* C36: a query called with a mode that differs from the current one returns
\* with an empty memory: the turns recorded before the call are cleared by
\* the switch, and the pair of the call itself by the switch back.
C36_OverrideQueryReturnsEmptyHistory ==
    [][/\ (asking.pc = "idle" /\ asking'.pc = "awaiting" /\ mode' # mode)
            => (memory' = <<>> /\ asking'.original_mode = mode)
       /\ (query_return /\ asking.original_mode # "none")
            => /\ memory' = <<>>
               /\ Generated => /\ Len(asking.appended) = 2
                               /\ \A k \in 1..Len(asking.appended) :
                                     asking.appended[k] \notin Range(memory')]_vars

C36_Witness ==
    /\ asking.pc = "idle"
    /\ answer.status = "returned" /\ answer.answer \in Answers
    /\ answer.mode_used = "professor"
    /\ mode = "student"
    /\ memory = <<>>
    /\ \E k \in 1..Len(calls) : calls[k].fn = "combine_docs"

\* C38: a query without a mode that finds no result leaves the memory as it
\* was: neither the question nor the not-found answer is recorded, and
\* question_generator (the rewrite) is not called.
C38_NotFoundLeavesHistory ==
    [][/\ (asking.pc = "idle" /\ NoSources' /\ asking'.original_mode = "none")
             => /\ memory' = memory
                /\ asking'.appended = <<>>
                /\ \A k \in 1..Len(calls') : calls'[k].fn # "question_generator"
       /\ (query_return /\ NoSources /\ asking.original_mode = "none")
             => /\ memory' = memory
                /\ memory' = asking.chat_history
                /\ calls' = calls]_vars

C38_Witness ==
    /\ asking.pc = "idle"
    /\ answer.answer = NotFoundAnswer
    /\ answer.mode_used = mode
    /\ memory # <<>>
    /\ \A k \in 1..Len(calls) : calls[k].fn # "question_generator"

----------------------------------------------------------------------------
(* Further claims about the upload sessions *)

StoredIndexesInRange(uploads, dirs) ==
    \A id \in DOMAIN uploads :
       /\ IndexesOf(uploads[id]) \subseteq 0..(uploads[id].total_chunks - 1)
       /\ id \in DOMAIN dirs
             => DOMAIN dirs[id] \subseteq 0..(uploads[id].total_chunks - 1)

\* C32: upload_chunk with an index below 0 or at or above total_chunks of
\* the session answers 400 and stores nothing, so the indexes of the parts a
\* session holds are always within 0..total_chunks-1.
C32_StoredIndexesInRange ==
    [][/\ StoredIndexesInRange(chunked_uploads', fs')
       /\ \A upload_id \in DOMAIN chunked_uploads, chunk_index \in -1..MaxChunks,
             chunk_data \in ChunkDataInputs :
             (/\ chunk_index < 0
                    \/ chunk_index >= chunked_uploads[upload_id].total_chunks
              /\ upload_chunk(upload_id, chunk_index, chunk_data))
                => (resp'.status = 400 /\ UNCHANGED <<chunked_uploads, fs>>)]_vars

\* a part with an index out of range was refused by a session that takes parts
C32_Witness ==
    /\ resp.op = "upload_chunk" /\ resp.status = 400
    /\ resp.upload_id \in DOMAIN chunked_uploads
    /\ ~chunked_uploads[resp.upload_id].is_complete
    /\ chunked_uploads[resp.upload_id].chunks # <<>>

\* C33: the reaper runs for the life of the process: every run, also one
\* that handlers overlap by adding or removing sessions, ends by starting
\* the timer of the next run.
C33_ReaperAlwaysRescheduled == reaper.pc # "dead"

\* a session marked complete that no finalize is working on: what a finalize
\* that failed leaves behind
LeftByFailedFinalize(id) ==
    /\ id \in DOMAIN chunked_uploads
    /\ chunked_uploads[id].is_complete
    /\ ~(fin.pc # "idle" /\ fin.upload_id = id)

AllPartsStored(upload_session) ==
    \A i \in 0..(upload_session.total_chunks - 1) : i \in IndexesOf(upload_session)

\* C37: finalize gives bytes to process_document only when a part is stored
\* for every index 0..total_chunks-1: when the count equals total_chunks
\* and an index has no part, the assembly fails with 500 and process_document
\* is not called.
C37_NoIngestWithMissingPart ==
    [][/\ fin'.pc = "process"
             => /\ AllPartsStored(fin'.session)
                /\ fin.pc = "combine"
                      => /\ fin.upload_id \in DOMAIN fs
                         /\ 0..(fin.session.total_chunks - 1) \subseteq DOMAIN fs[fin.upload_id]
       /\ (finalize_combine /\ ~AllPartsStored(fin.session))
             => (fin'.pc = "cleanup" /\ fin'.status = 500)]_vars

\* a finalize failed on a session whose count had reached total_chunks
\* with an index missing
C37_Witness ==
    /\ fin.pc = "idle"
    /\ resp.op = "finalize" /\ resp.status = 500
    /\ resp.upload_id \in DOMAIN chunked_uploads
    /\ all_chunks_received(chunked_uploads[resp.upload_id])
    /\ ~AllPartsStored(chunked_uploads[resp.upload_id])

\* C39: expires_at and total_chunks of a session are those initiate gave it
\* (expires_at one TTL after the creation): upload_chunk and finalize leave
\* them alone, and the reaper takes a session for expired by that expires_at
\* alone, whatever parts it received and whether a finalize is at work on it.
C39_ExpiryFixedAtInitiate ==
    [][/\ \A id \in DOMAIN chunked_uploads \cap DOMAIN chunked_uploads' :
             /\ chunked_uploads'[id].expires_at = chunked_uploads[id].expires_at
             /\ chunked_uploads'[id].total_chunks = chunked_uploads[id].total_chunks
       /\ \A id \in DOMAIN chunked_uploads' \ DOMAIN chunked_uploads :
             chunked_uploads'[id].expires_at = now + TTL
       /\ reaper_scan
             => \A id \in reaper'.visited \ reaper.visited :
                   id \in Range(reaper'.expired_ids)
                      <=> chunked_uploads[id].expires_at < reaper.now]_vars

\* a session that received a part and is expired all the same
C39_Witness ==
    \E id \in DOMAIN chunked_uploads :
       /\ chunked_uploads[id].chunks # <<>>
       /\ chunked_uploads[id].expires_at < now
       /\ resp.op = "upload_chunk" /\ resp.status = 200 /\ resp.upload_id = id

----------------------------------------------------------------------------
(* A further claim about the vector store *)

\* C34: when add_documents returns, it has inserted one row for each
\* document it was given and returns as many ids: a document it cannot
\* store makes it raise, none is skipped.
C34_AddDocumentsStoresAllOrFails ==
    (applied.fn = "add_documents" /\ applied.result.status = "returned")
       => /\ Len(applied.result.rows) = Len(applied.args.documents)
          /\ Len(applied.result.inserted_chunk_ids) = Len(applied.args.documents)

====
